---- MODULE Spec2Model ----
(***************************************************************************)
(* Document-QA-System: the FastAPI backend (api_fastapi.py), the service   *)
(* facade (services/qa_service.py), the CLI loop (main.py) and the vector  *)
(* store they share (vectorstore/store.py).                                *)
(*                                                                         *)
(* A text is a sequence of runs [ch, n]: n copies of the character ch.     *)
(* "   " is <<[ch |-> " ", n |-> 3]>>, the empty string is <<>>.           *)
(* A file name is [stem, suffix]; "a.txt" is [stem |-> "a", suffix |->     *)
(* ".txt"].                                                                *)
(***************************************************************************)
EXTENDS Naturals, Sequences, FiniteSets, TLC

\* ------------------------------------------------------------------ bounds
MaxFiles == 3       \* longest file list of an upload request
MaxBatch == 1       \* longest file list when two uploads run concurrently
MaxIndex == 6       \* most entries the vector store holds in a run
MaxCalls == 3       \* most questions the CLI loop reads, most direct add_document calls

\* --------------------------------------------------------------- constants
chunk_size == 810
chunk_overlap == 150
K == 4
PreviewLen == 200

\* ------------------------------------------------------------------- texts
Run(c, n) == [ch |-> c, n |-> n]

Whitespace == {" ", "\n", "\t"}

RECURSIVE TextLen(_)
TextLen(t) == IF t = <<>> THEN 0 ELSE t[1].n + TextLen(Tail(t))

RECURSIVE LStrip(_)
LStrip(t) ==
    IF t = <<>> THEN <<>>
    ELSE IF t[1].ch \in Whitespace \/ t[1].n = 0 THEN LStrip(Tail(t))
    ELSE t

RECURSIVE RStrip(_)
RStrip(t) ==
    IF t = <<>> THEN <<>>
    ELSE IF t[Len(t)].ch \in Whitespace \/ t[Len(t)].n = 0
         THEN RStrip(SubSeq(t, 1, Len(t) - 1))
    ELSE t

\* str.strip()
Strip(t) == RStrip(LStrip(t))

\* Python truthiness of a str: `not s` is True exactly for the empty string
Falsy(t) == TextLen(t) = 0

\* str.lower() on the suffixes the model uses
Lower(s) ==
    CASE s = ".TXT" -> ".txt"
      [] s = ".PDF" -> ".pdf"
      [] s = ".DOCX" -> ".docx"
      [] OTHER -> s

\* Path(filename).suffix.lower()
Ext(filename) == Lower(filename.suffix)

Name(stem, suffix) == [stem |-> stem, suffix |-> suffix]

\* ---------------------------------------------------------- uploaded files
\* An uploaded file: its name and the text its bytes hold (for a PDF, the
\* text of each page).
FileA == [filename |-> Name("a", ".txt"), pages |-> << <<Run("s", 500)>> >>]
FileB == [filename |-> Name("b", ".PDF"), pages |-> << <<Run("s", 2790)>> >>]
FileC == [filename |-> Name("c", ".exe"), pages |-> << <<Run("x", 40)>> >>]
FileD == [filename |-> Name("d", ".txt"), pages |-> << <<Run(" ", 3)>> >>]

Files == {FileA, FileB, FileC, FileD}

RECURSIVE SeqsUpTo(_, _)
SeqsUpTo(S, n) ==
    IF n = 0 THEN {<<>>}
    ELSE LET shorter == SeqsUpTo(S, n - 1)
         IN  shorter \cup {Append(s, x) : s \in {t \in shorter : Len(t) = n - 1}, x \in S}

FileLists == SeqsUpTo(Files, MaxFiles)

Batches == SeqsUpTo(Files, MaxBatch)

\* the questions a client or the CLI user sends
Questions == {<<>>, <<Run(" ", 3)>>, <<Run("s", 3)>>, <<Run("t", 3)>>}

\* --------------------------------------------------------- text extraction
Ok(text) == [ok |-> TRUE, text |-> text, err |-> ""]
Raise(err) == [ok |-> FALSE, text |-> <<>>, err |-> err]

extract_text_from_txt(file) == Ok(file.pages[1])

RECURSIVE JoinPages(_)
JoinPages(pages) ==
    IF pages = <<>> THEN <<>>
    ELSE pages[1] \o <<Run("\n", 1)>> \o JoinPages(Tail(pages))

extract_text_from_pdf(file, readable) ==
    IF readable THEN Ok(JoinPages(file.pages)) ELSE Raise("Error reading PDF")

extract_text_from_docx(file, readable) ==
    IF readable THEN Ok(JoinPages(file.pages)) ELSE Raise("Error reading DOCX")

process_uploaded_file(file, readable) ==
    LET ext == Ext(file.filename)
    IN  IF ext = ".txt" THEN extract_text_from_txt(file)
        ELSE IF ext = ".pdf" THEN extract_text_from_pdf(file, readable)
        ELSE IF ext \in {".docx", ".doc"} THEN extract_text_from_docx(file, readable)
        ELSE Raise("Unsupported file type")

SupportedExt == {".txt", ".pdf", ".docx", ".doc"}

\* ------------------------------------------------------------ vector store
Document(page_content, metadata) ==
    [page_content |-> page_content, metadata |-> metadata]

SystemSource == Name("system", "")

dummy_doc == Document(<<Run("P", 11)>>, [source |-> SystemSource])

splitted_docs == <<>>

\* FAISS.from_documents: an index over the documents; it cannot be built
\* from an empty list (there is no first embedding to size it by).
FAISS_from_documents(docs) == [built |-> docs # <<>>, docs |-> docs]

vector_store_unseeded == FAISS_from_documents(splitted_docs)

vector_store == FAISS_from_documents(<<dummy_doc>>)

\* --------------------------------------------------------------- splitting
Min(a, b) == IF a < b THEN a ELSE b

CeilDiv(a, b) == (a + b - 1) \div b

\* RecursiveCharacterTextSplitter(chunk_size, chunk_overlap).split_text on a
\* text whose stripped body has no separator in it: windows of chunk_size
\* characters, each starting chunk_size - chunk_overlap after the previous.
NumChunks(n) ==
    IF n = 0 THEN 0
    ELSE IF n <= chunk_size THEN 1
    ELSE 1 + CeilDiv(n - chunk_size, chunk_size - chunk_overlap)

split_text(text) ==
    LET body == Strip(text)
        n == TextLen(body)
        step == chunk_size - chunk_overlap
    IN  [j \in 1..NumChunks(n) |->
            <<Run(body[1].ch, Min(chunk_size, n - (j - 1) * step))>>]

split_documents(doc) ==
    LET parts == split_text(doc.page_content)
    IN  [j \in 1..Len(parts) |-> Document(parts[j], doc.metadata)]

add_documents_replacing(idx, chunks) == [idx EXCEPT !.docs = chunks]

\* vectorstore.add_documents(chunks)
add_documents(idx, chunks) == [idx EXCEPT !.docs = @ \o chunks]


\* --------------------------------------------------------------- retriever
\* The embedding space: a question matches a chunk closely when they share a
\* character.
Chars(t) == {t[j].ch : j \in 1..Len(t)} \ Whitespace

Match(question, doc) == Chars(question) \cap Chars(doc.page_content) # {}

\* Index.query(embedding, k): up to k entries by descending similarity, ties
\* broken by insertion order.
similarity_search(idx, question, k) ==
    LET Hit(d) == Match(question, d)
        Miss(d) == ~Match(question, d)
        ranked == SelectSeq(idx.docs, Hit) \o SelectSeq(idx.docs, Miss)
    IN  SubSeq(ranked, 1, Min(k, Len(ranked)))

\* retriever.invoke(question): embeds the question, then queries the index
retriever_invoke(idx, question, embedOk) ==
    IF ~idx.built THEN [error |-> "index not initialized", docs |-> <<>>]
    ELSE IF ~embedOk THEN [error |-> "EmbeddingBackendError", docs |-> <<>>]
    ELSE [error |-> "", docs |-> similarity_search(idx, question, K)]

\* ------------------------------------------------------------ the facade
\* format_docs: one "Source: <source>\n <content>" block per document
format_docs(docs) ==
    [j \in 1..Len(docs) |-> <<"Source: ", docs[j].metadata.source, docs[j].page_content>>]

\* chain.invoke: the model's reply to the filled prompt
chain_invoke(context, question) == <<[question |-> question, context |-> context]>>

NoAnswer == <<>>

\* QAService.ask(question): what it returns or raises, and the calls it made
QAService_ask(idx, question, embedOk, llmOk) ==
    LET got == retriever_invoke(idx, question, embedOk)
    IN  IF got.error # ""
        THEN [error |-> got.error, answer |-> NoAnswer, docs |-> <<>>,
              calls |-> {"retriever"}]
        ELSE IF ~llmOk
        THEN [error |-> "GenerationError", answer |-> NoAnswer, docs |-> <<>>,
              calls |-> {"retriever", "llm"}]
        ELSE [error |-> "",
              answer |-> chain_invoke(format_docs(got.docs), question),
              docs |-> got.docs, calls |-> {"retriever", "llm"}]

add_document_unstored(idx, text_content, metadata, storeOk) ==
    LET chunks == split_documents(Document(text_content, metadata))
    IN  [error |-> "", index |-> idx, ret |-> Len(chunks)]

\* QAService.add_document(text_content, metadata): the index afterwards and
\* the value returned (or the error raised by the store)
add_document(idx, text_content, metadata, storeOk) ==
    LET chunks == split_documents(Document(text_content, metadata))
    IN  IF storeOk
        THEN [error |-> "", index |-> add_documents(idx, chunks), ret |-> Len(chunks)]
        ELSE [error |-> "EmbeddingBackendError", index |-> idx, ret |-> 0]

\* --------------------------------------------------------------- responses
NoCause == [status |-> 0, detail |-> "", errors |-> <<>>]

Response(status, detail) ==
    [status |-> status, detail |-> detail, cause |-> NoCause,
     answer |-> NoAnswer, sources |-> <<>>, question |-> <<>>,
     files_processed |-> 0, filenames |-> <<>>, warnings |-> <<>>]

NoResponse == Response(0, "")

HTTPException(status, detail) == Response(status, detail)

RECURSIVE Take(_, _)
Take(t, n) ==
    IF t = <<>> \/ n = 0 THEN <<>>
    ELSE IF t[1].n >= n THEN <<Run(t[1].ch, n)>>
    ELSE <<t[1]>> \o Take(Tail(t), n - t[1].n)

\* Source(source=..., content=page_content[:200] + "..." if longer else page_content)
Source(doc) ==
    [source |-> doc.metadata.source,
     content |-> IF TextLen(doc.page_content) > PreviewLen
                 THEN Take(doc.page_content, PreviewLen) \o <<Run(".", 3)>>
                 ELSE doc.page_content]

AnswerResponse(answer, sources, question) ==
    [Response(200, "") EXCEPT !.answer = answer, !.sources = sources,
                              !.question = question]

ask_response_partial(question, res, formatOk) ==
    AnswerResponse(res.answer, [j \in 1..Len(res.docs) |-> Source(res.docs[j])], question)

\* ask_question, lines 169-193: the try block around ask and the formatting
ask_response(question, res, formatOk) ==
    IF res.error # "" THEN HTTPException(500, res.error)
    ELSE IF ~formatOk THEN HTTPException(500, "ValidationError")
    ELSE AnswerResponse(res.answer,
                        [j \in 1..Len(res.docs) |-> Source(res.docs[j])], question)

\* ----------------------------------------------------- temporary directory
NoDir == [exists |-> FALSE, entries |-> {}]

mkdtemp == [exists |-> TRUE, entries |-> {}]

\* open(temp_file_path, 'wb')
create_file(dir, name) == [dir EXCEPT !.entries = @ \cup {name}]

remove_temp_file_skipped(dir, name) == dir

\* lines 268-271: if os.path.exists(temp_file_path): os.remove(temp_file_path)
remove_temp_file(dir, name) == [dir EXCEPT !.entries = @ \ {name}]

os_rmdir_skipped(dir) == [ok |-> TRUE, dir |-> dir]

\* os.rmdir(temp_dir): raises OSError on a directory that is not empty
os_rmdir(dir) ==
    IF dir.entries = {} THEN [ok |-> TRUE, dir |-> NoDir]
    ELSE [ok |-> FALSE, dir |-> dir]

\* lines 295-297: if os.path.exists(temp_dir): shutil.rmtree(temp_dir)
cleanup_on_error(dir) == IF dir.exists THEN NoDir ELSE dir

record_error_dropped(errs, filename, reason) == errs

\* errors.append(f"{file.filename}: {reason}")
record_error(errs, filename, reason) == Append(errs, <<filename, reason>>)

\* lines 273-302: what upload_files answers once the loop has ended, and the
\* temporary directory it leaves
finish_upload(dir, processed, errs) ==
    LET rm == os_rmdir(dir)
    IN  IF ~rm.ok
        THEN [dir |-> cleanup_on_error(rm.dir),
              resp |-> [HTTPException(500, "Error processing files") EXCEPT
                          !.cause = [status |-> 0, detail |-> "OSError", errors |-> <<>>]]]
        ELSE IF processed = <<>>
        THEN \* HTTPException(400) is raised inside the try and caught by
             \* `except Exception` on line 293
             [dir |-> cleanup_on_error(rm.dir),
              resp |-> [HTTPException(500, "Error processing files") EXCEPT
                          !.cause = [status |-> 400,
                                     detail |-> "No files were processed successfully",
                                     errors |-> errs]]]
        ELSE [dir |-> rm.dir,
              resp |-> [Response(200, "Files processed successfully") EXCEPT
                          !.files_processed = Len(processed),
                          !.filenames = processed,
                          !.warnings = errs]]


\* ------------------------------------------------------------------- state
Uploads == {"u1", "u2"}     \* upload_files coroutines
Asks == {"q1"}              \* ask_question coroutines
Slots == Uploads \cup Asks
NoReq == "none"

VARIABLES
    qa_service,       \* "ready", or "none" when QAService() raised at import
    index,            \* vectorstore.store.vector_store
    running,          \* the coroutine the event loop is executing, or NoReq
    pc,               \* where each coroutine is
    files,            \* upload_files: the request's file list
    pos,              \* upload_files: 1-based position of `for file in files`
    processed_files,  \* upload_files: processed_files
    errors,           \* upload_files: errors
    temp_dir,         \* upload_files: the directory mkdtemp made
    text_content,     \* upload_files: text_content of the current file
    question,         \* ask_question: request.question
    calls,            \* ask_question: the backend calls the request made
    fault,            \* ask_question: the stage that raised, "none" if none
    docs,             \* ask_question: the documents ask returned
    resp,             \* the response each coroutine sent last
    cli_pc,           \* main.py: "prompt", "exited" or "crashed"
    cli_n,            \* main.py: questions read so far
    cli_last,         \* main.py: what the last qa.ask call did
    add_last,         \* what the last direct add_document call did
    ingested          \* history: the add_document calls that returned

httpVars == <<running, pc, files, pos, processed_files, errors, temp_dir,
              text_content, question, calls, fault, docs, resp>>
cliVars == <<cli_pc, cli_n, cli_last, add_last>>
vars == <<qa_service, index, ingested, httpVars, cliVars>>

NoCall == [question |-> <<>>, error |-> "", answer |-> NoAnswer,
           sources |-> <<>>, calls |-> {}, made |-> FALSE]

NoAdd == [content |-> <<>>, source |-> SystemSource, error |-> "", ret |-> 0,
          before |-> 0, after |-> 0, made |-> FALSE]

Init ==
    /\ qa_service \in {"ready", "none"}
    /\ index = vector_store
    /\ running = NoReq
    /\ pc = [r \in Slots |-> "idle"]
    /\ files = [r \in Uploads |-> <<>>]
    /\ pos = [r \in Uploads |-> 1]
    /\ processed_files = [r \in Uploads |-> <<>>]
    /\ errors = [r \in Uploads |-> <<>>]
    /\ temp_dir = [r \in Uploads |-> NoDir]
    /\ text_content = [r \in Uploads |-> <<>>]
    /\ question = [r \in Asks |-> <<>>]
    /\ calls = [r \in Asks |-> {}]
    /\ fault = [r \in Asks |-> "none"]
    /\ docs = [r \in Asks |-> <<>>]
    /\ resp = [r \in Slots |-> NoResponse]
    /\ cli_pc = "prompt"
    /\ cli_n = 0
    /\ cli_last = NoCall
    /\ add_last = NoAdd
    /\ ingested = <<>>

\* ------------------------------------------------------------ event loop
MayRunAnyTime(r) == TRUE

\* Both handlers are `async def`: they run on the one event loop, which
\* switches coroutines only at an await.
MayRun(r) == running \in {NoReq, r}


\* history of one completed add_document call: its arguments and where the
\* index ended before it
Ingest(idx, content, source) ==
    [source |-> source, content |-> content, first |-> Len(idx.docs) + 1]

\* ------------------------------------------------------------ upload_files
\* the chunks a file adds to the index when every step succeeds
FileChunks(file) ==
    LET got == process_uploaded_file(file, TRUE)
    IN  IF Ext(file.filename) \in SupportedExt /\ got.ok
        THEN NumChunks(TextLen(Strip(got.text))) ELSE 0

RECURSIVE ChunksFrom(_, _)
ChunksFrom(fs, j) ==
    IF j > Len(fs) THEN 0 ELSE FileChunks(fs[j]) + ChunksFrom(fs, j + 1)

Pending(r) ==
    IF pc[r] \in {"loop", "read", "insert"} THEN ChunksFrom(files[r], pos[r]) ELSE 0

RECURSIVE PendingAll(_)
PendingAll(S) ==
    IF S = {} THEN 0
    ELSE LET r == CHOOSE x \in S : TRUE IN Pending(r) + PendingAll(S \ {r})

\* the bound on the index: a request starts only if its chunks still fit
Fits(n) == Len(index.docs) + PendingAll(Uploads) + n <= MaxIndex

\* lines 208-224: the checks, the two lists and the temporary directory
UploadStart(r, fs) ==
    /\ pc[r] = "idle"
    /\ MayRun(r)
    /\ Fits(ChunksFrom(fs, 1))
    /\ files' = [files EXCEPT ![r] = fs]
    /\ pos' = [pos EXCEPT ![r] = 1]
    /\ processed_files' = [processed_files EXCEPT ![r] = <<>>]
    /\ errors' = [errors EXCEPT ![r] = <<>>]
    /\ text_content' = [text_content EXCEPT ![r] = <<>>]
    /\ IF qa_service = "none"
       THEN /\ resp' = [resp EXCEPT ![r] = HTTPException(503, "QA Service is not initialized")]
            /\ pc' = [pc EXCEPT ![r] = "done"]
            /\ temp_dir' = [temp_dir EXCEPT ![r] = NoDir]
            /\ running' = r
       ELSE IF fs = <<>>
       THEN /\ resp' = [resp EXCEPT ![r] = HTTPException(400, "No files provided")]
            /\ pc' = [pc EXCEPT ![r] = "done"]
            /\ temp_dir' = [temp_dir EXCEPT ![r] = NoDir]
            /\ running' = r
       ELSE /\ resp' = [resp EXCEPT ![r] = NoResponse]
            /\ pc' = [pc EXCEPT ![r] = "loop"]
            /\ temp_dir' = [temp_dir EXCEPT ![r] = mkdtemp]
            /\ running' = r
    /\ UNCHANGED <<qa_service, index, ingested, question, calls, fault, docs, cliVars>>

\* the except/finally of the loop body, lines 246-248 and 265-271: the file
\* becomes a warning, its temporary file is removed, the loop goes on
FileFailed(r, reason) ==
    LET file == files[r][pos[r]]
    IN  /\ errors' = [errors EXCEPT ![r] = record_error(@, file.filename, reason)]
        /\ temp_dir' = [temp_dir EXCEPT ![r] = remove_temp_file(@, file.filename)]
        /\ pos' = [pos EXCEPT ![r] = @ + 1]
        /\ pc' = [pc EXCEPT ![r] = "loop"]
        /\ text_content' = [text_content EXCEPT ![r] = <<>>]
        /\ running' = r

\* lines 227-240: the extension check and open(); the coroutine then awaits
\* file.read()
UploadNextFile(r) ==
    /\ pc[r] = "loop"
    /\ MayRun(r)
    /\ pos[r] <= Len(files[r])
    /\ LET file == files[r][pos[r]]
       IN  IF Ext(file.filename) \notin SupportedExt
           THEN /\ errors' = [errors EXCEPT ![r] =
                                record_error(@, file.filename, "Unsupported file type")]
                /\ pos' = [pos EXCEPT ![r] = @ + 1]
                /\ running' = r
                /\ UNCHANGED <<pc, temp_dir, text_content>>
           ELSE \E opened \in BOOLEAN :
                  IF opened
                  THEN /\ temp_dir' = [temp_dir EXCEPT ![r] = create_file(@, file.filename)]
                       /\ pc' = [pc EXCEPT ![r] = "read"]
                       /\ running' = NoReq
                       /\ UNCHANGED <<errors, pos, text_content>>
                  ELSE FileFailed(r, "OSError")
    /\ UNCHANGED <<qa_service, index, ingested, files, processed_files, question, calls,
                   fault, docs, resp, cliVars>>

\* lines 240-254: file.read() has returned; write, extract, the blank check,
\* and the call of add_document
UploadAfterRead(r) ==
    /\ pc[r] = "read"
    /\ MayRun(r)
    /\ \E written \in BOOLEAN, readable \in BOOLEAN :
         LET file == files[r][pos[r]]
             got == process_uploaded_file(file, readable)
         IN  IF ~written THEN FileFailed(r, "OSError")
             ELSE IF ~got.ok THEN FileFailed(r, got.err)
             ELSE IF Falsy(Strip(got.text)) THEN FileFailed(r, "No text content found")
             ELSE /\ text_content' = [text_content EXCEPT ![r] = got.text]
                  /\ pc' = [pc EXCEPT ![r] = "insert"]
                  /\ running' = r
                  /\ UNCHANGED <<errors, temp_dir, pos>>
    /\ UNCHANGED <<qa_service, index, ingested, files, processed_files, question, calls,
                   fault, docs, resp, cliVars>>

\* lines 253-271: add_document returns or raises; the file is recorded and
\* its temporary file removed
UploadInsert(r) ==
    /\ pc[r] = "insert"
    /\ MayRun(r)
    /\ \E storeOk \in BOOLEAN :
         LET file == files[r][pos[r]]
             res == add_document(index, text_content[r],
                                 [source |-> file.filename], storeOk)
         IN  /\ index' = res.index
             /\ IF res.error = ""
                THEN /\ ingested' = Append(ingested,
                                          Ingest(index, text_content[r], file.filename))
                     /\ processed_files' = [processed_files EXCEPT ![r] =
                                              Append(@, file.filename)]
                     /\ temp_dir' = [temp_dir EXCEPT ![r] =
                                       remove_temp_file(@, file.filename)]
                     /\ pos' = [pos EXCEPT ![r] = @ + 1]
                     /\ pc' = [pc EXCEPT ![r] = "loop"]
                     /\ text_content' = [text_content EXCEPT ![r] = <<>>]
                     /\ running' = r
                     /\ UNCHANGED errors
                ELSE /\ FileFailed(r, res.error)
                     /\ UNCHANGED <<processed_files, ingested>>
    /\ UNCHANGED <<qa_service, files, question, calls, fault, docs, resp, cliVars>>

\* lines 273-302: the loop has ended
UploadFinish(r) ==
    /\ pc[r] = "loop"
    /\ MayRun(r)
    /\ pos[r] > Len(files[r])
    /\ LET fin == finish_upload(temp_dir[r], processed_files[r], errors[r])
       IN  /\ temp_dir' = [temp_dir EXCEPT ![r] = fin.dir]
           /\ resp' = [resp EXCEPT ![r] = fin.resp]
    /\ pc' = [pc EXCEPT ![r] = "done"]
    /\ running' = r
    /\ UNCHANGED <<qa_service, index, ingested, files, pos, processed_files, errors,
                   text_content, question, calls, fault, docs, cliVars>>

\* ------------------------------------------------------------ ask_question
\* line 163: not request.question or not request.question.strip()
question_is_empty(q) == Falsy(q) \/ Falsy(Strip(q))

\* lines 157-167: the checks made before the try block
AskStart(r, q) ==
    /\ pc[r] = "idle"
    /\ MayRun(r)
    /\ question' = [question EXCEPT ![r] = q]
    /\ calls' = [calls EXCEPT ![r] = {}]
    /\ fault' = [fault EXCEPT ![r] = "none"]
    /\ docs' = [docs EXCEPT ![r] = <<>>]
    /\ IF qa_service = "none"
       THEN /\ resp' = [resp EXCEPT ![r] = HTTPException(503, "QA Service is not initialized")]
            /\ pc' = [pc EXCEPT ![r] = "done"]
            /\ running' = r
       ELSE IF question_is_empty(q)
       THEN /\ resp' = [resp EXCEPT ![r] = HTTPException(400, "Question cannot be empty")]
            /\ pc' = [pc EXCEPT ![r] = "done"]
            /\ running' = r
       ELSE /\ resp' = [resp EXCEPT ![r] = NoResponse]
            /\ pc' = [pc EXCEPT ![r] = "asking"]
            /\ running' = r
    /\ UNCHANGED <<qa_service, index, ingested, files, pos, processed_files, errors,
                   temp_dir, text_content, cliVars>>

Stages == {"none", "retrieve", "generate", "format"}

\* lines 169-193: qa_service.ask, the sources, the response
AskFinish(r) ==
    /\ pc[r] = "asking"
    /\ MayRun(r)
    /\ \E f \in Stages :
         LET res == QAService_ask(index, question[r], f # "retrieve", f # "generate")
         IN  /\ resp' = [resp EXCEPT ![r] = ask_response(question[r], res, f # "format")]
             /\ calls' = [calls EXCEPT ![r] = res.calls]
             /\ docs' = [docs EXCEPT ![r] = res.docs]
             /\ fault' = [fault EXCEPT ![r] = f]
    /\ pc' = [pc EXCEPT ![r] = "done"]
    /\ running' = r
    /\ UNCHANGED <<qa_service, index, ingested, files, pos, processed_files, errors,
                   temp_dir, text_content, question, cliVars>>

\* The handler has returned or raised: the response is sent, the request's
\* locals are gone, and the event loop is free again.
Respond(r) ==
    /\ pc[r] = "done"
    /\ MayRun(r)
    /\ pc' = [pc EXCEPT ![r] = "idle"]
    /\ resp' = [resp EXCEPT ![r] = NoResponse]
    /\ running' = NoReq
    /\ IF r \in Uploads
       THEN /\ files' = [files EXCEPT ![r] = <<>>]
            /\ pos' = [pos EXCEPT ![r] = 1]
            /\ processed_files' = [processed_files EXCEPT ![r] = <<>>]
            /\ errors' = [errors EXCEPT ![r] = <<>>]
            /\ UNCHANGED <<question, calls, fault, docs>>
       ELSE /\ question' = [question EXCEPT ![r] = <<>>]
            /\ calls' = [calls EXCEPT ![r] = {}]
            /\ fault' = [fault EXCEPT ![r] = "none"]
            /\ docs' = [docs EXCEPT ![r] = <<>>]
            /\ UNCHANGED <<files, pos, processed_files, errors>>
    /\ UNCHANGED <<qa_service, index, ingested, temp_dir, text_content, cliVars>>

\* one client uploading batches of up to MaxFiles files, one client asking
Next ==
    \/ \E fs \in FileLists : UploadStart("u1", fs)
    \/ UploadNextFile("u1")
    \/ UploadAfterRead("u1")
    \/ UploadInsert("u1")
    \/ UploadFinish("u1")
    \/ \E r \in Asks, q \in Questions : AskStart(r, q)
    \/ \E r \in Asks : AskFinish(r)
    \/ \E r \in {"u1"} \cup Asks : Respond(r)

Spec == Init /\ [][Next]_vars

\* two clients uploading at the same time, one client asking
NextConcurrent ==
    \/ \E r \in Uploads, fs \in Batches : UploadStart(r, fs)
    \/ \E r \in Uploads : UploadNextFile(r)
    \/ \E r \in Uploads : UploadAfterRead(r)
    \/ \E r \in Uploads : UploadInsert(r)
    \/ \E r \in Uploads : UploadFinish(r)
    \/ \E r \in Asks, q \in Questions : AskStart(r, q)
    \/ \E r \in Asks : AskFinish(r)
    \/ \E r \in Slots : Respond(r)

SpecConcurrent == Init /\ [][NextConcurrent]_vars


\* ----------------------------------------------------------------- main.py
\* str.lower() on a text
LowerText(t) ==
    [j \in 1..Len(t) |->
        Run(CASE t[j].ch = "E" -> "e" [] t[j].ch = "X" -> "x"
              [] t[j].ch = "I" -> "i" [] t[j].ch = "T" -> "t"
              [] OTHER -> t[j].ch,
            t[j].n)]

ExitText == <<Run("e", 1), Run("x", 1), Run("i", 1), Run("t", 1)>>

CliInputs == Questions \cup {ExitText, <<Run("E", 1), Run("x", 1), Run("I", 1), Run("t", 1)>>}

\* lines 7-18: a question is read and passed to qa.ask; an exception ask
\* raises is not caught and ends the process
MainAsk(q) ==
    /\ cli_pc = "prompt"
    /\ qa_service = "ready"
    /\ cli_n < MaxCalls
    /\ LowerText(q) # ExitText
    /\ \E embedOk \in BOOLEAN, llmOk \in BOOLEAN :
         LET res == QAService_ask(index, q, embedOk, llmOk)
         IN  /\ cli_last' = [question |-> q, error |-> res.error,
                             answer |-> res.answer,
                             sources |-> [j \in 1..Len(res.docs) |->
                                            res.docs[j].metadata.source],
                             calls |-> res.calls, made |-> TRUE]
             /\ cli_pc' = IF res.error = "" THEN "prompt" ELSE "crashed"
    /\ cli_n' = cli_n + 1
    /\ UNCHANGED <<qa_service, index, ingested, httpVars, add_last>>

\* lines 9-10: "exit" in any case ends the loop
MainExit(q) ==
    /\ cli_pc = "prompt"
    /\ qa_service = "ready"
    /\ LowerText(q) = ExitText
    /\ cli_pc' = "exited"
    /\ UNCHANGED <<qa_service, index, ingested, httpVars, cli_n, cli_last, add_last>>

\* the contents and names add_document is called with
Contents == {<<>>, <<Run(" ", 3)>>, <<Run("\n", 2)>>,
             <<Run("s", 500)>>, <<Run("s", 2790), Run("\n", 1)>>}

Sources == {FileA.filename, FileB.filename}

\* a caller of the facade calls QAService.add_document(content, metadata)
CallAddDocument(content, source) ==
    /\ qa_service = "ready"
    /\ cli_pc = "prompt"
    /\ Len(ingested) < MaxCalls
    /\ Len(index.docs) + NumChunks(TextLen(Strip(content))) <= MaxIndex
    /\ \E storeOk \in BOOLEAN :
         LET res == add_document(index, content, [source |-> source], storeOk)
         IN  /\ index' = res.index
             /\ ingested' = IF res.error = ""
                            THEN Append(ingested, Ingest(index, content, source))
                            ELSE ingested
             /\ add_last' = [content |-> content, source |-> source,
                             error |-> res.error, ret |-> res.ret,
                             before |-> Len(index.docs),
                             after |-> Len(res.index.docs), made |-> TRUE]
    /\ UNCHANGED <<qa_service, httpVars, cli_pc, cli_n, cli_last>>

NextFacade ==
    \/ \E q \in CliInputs : MainAsk(q)
    \/ \E q \in CliInputs : MainExit(q)
    \/ \E c \in Contents, s \in Sources : CallAddDocument(c, s)

SpecFacade == Init /\ [][NextFacade]_vars


\* ================================================================== claims
Count(seq, x) == Cardinality({j \in 1..Len(seq) : seq[j] = x})

FileNames(fs) == [j \in 1..Len(fs) |-> fs[j].filename]

ErrorNames(errs) == [j \in 1..Len(errs) |-> errs[j][1]]

\* an upload request that got past the checks of lines 208-218
InLoop(r) == qa_service = "ready" /\ files[r] # <<>>

\* an ask request that got past the checks of lines 157-167
InTry(r) == qa_service = "ready" /\ ~question_is_empty(question[r])

SourcesOf(r) == {resp[r].sources[j].source : j \in 1..Len(resp[r].sources)}

\* C1: an upload with an initialized service and a non-empty file list in
\* which no file was processed successfully is answered with status 400.
C1_NoFileProcessedIs400 ==
    \A r \in Uploads :
        (pc[r] = "done" /\ InLoop(r) /\ processed_files[r] = <<>>)
            => resp[r].status = 400

FailureReasons == {"No text content found", "OSError", "Error reading PDF",
                   "Error reading DOCX", "EmbeddingBackendError"}

C3_EmptyQuestionRejected ==
    /\ \A r \in Asks :
         (pc[r] = "done" /\ qa_service = "ready" /\ Falsy(Strip(question[r])))
            => (resp[r].status = 400 /\ calls[r] = {})
    /\ (cli_last.made /\ Falsy(Strip(cli_last.question)))
            => (cli_last.error = "EmptyQuestion" /\ cli_last.calls = {})

\* C4: every step leaves the entries the index holds where they are and
\* unchanged; the index only grows at its end.
C4_AppendOnly ==
    [][/\ Len(index'.docs) >= Len(index.docs)
       /\ SubSeq(index'.docs, 1, Len(index.docs)) = index.docs]_vars

\* the placeholder followed by the chunks of two uploaded files
C4_Witness ==
    /\ Len(index.docs) >= 3
    /\ index.docs[1] = dummy_doc
    /\ \E i \in 2..Len(index.docs), j \in 2..Len(index.docs) :
         /\ i < j
         /\ index.docs[i].metadata.source # index.docs[j].metadata.source

\* C5: at most one add_document call is in progress at a time, and no ask
\* is in progress while one is.
C5_InsertsSerialized ==
    /\ Cardinality({r \in Uploads : pc[r] = "insert"}) <= 1
    /\ (\E r \in Uploads : pc[r] = "insert") => (\A a \in Asks : pc[a] # "asking")

\* two uploads in flight: one inside add_document, the other awaiting its read
C5_Witness ==
    \E r \in Uploads, o \in Uploads :
        r # o /\ pc[r] = "insert" /\ pc[o] = "read"

\* C6: add_document with blank content fails with EmptyContent and inserts
\* nothing; with other content it returns the number of chunks it added.
C6_AddDocumentContract ==
    add_last.made =>
        IF Falsy(Strip(add_last.content))
        THEN add_last.error = "EmptyContent" /\ add_last.after = add_last.before
        ELSE add_last.error = "" => add_last.ret = add_last.after - add_last.before

\* C7: an ask request in which retrieval, the model call or the formatting
\* failed is answered 500 with a message and no answer or sources; a 200
\* response carries the answer and one source per retrieved document.
C7_AskAllOrNothing ==
    \A r \in Asks :
        (pc[r] = "done" /\ InTry(r)) =>
            /\ resp[r].status \in {200, 500}
            /\ fault[r] # "none"
                 => /\ resp[r].status = 500
                    /\ resp[r].detail # ""
                    /\ resp[r].answer = NoAnswer
                    /\ resp[r].sources = <<>>
            /\ resp[r].status = 200
                 => /\ fault[r] = "none"
                    /\ resp[r].answer # NoAnswer
                    /\ Len(resp[r].sources) = Len(docs[r])
                    /\ \A j \in 1..Len(docs[r]) :
                         resp[r].sources[j] = Source(docs[r][j])

\* the model call failed after retrieval succeeded
C7_Witness ==
    \E r \in Asks :
        /\ pc[r] = "done"
        /\ fault[r] = "generate"
        /\ calls[r] = {"retriever", "llm"}
        /\ resp[r].status = 500

MatchesIngest(q, e) == Match(q, Document(e.content, [source |-> e.source]))

\* index entries before position p that match the question
MatchesBefore(q, p) ==
    Cardinality({j \in 1..(p - 1) : j <= Len(index.docs) /\ Match(q, index.docs[j])})

C9_IndexQueryable ==
    /\ index.built
    /\ Len(index.docs) >= 1
    /\ \A r \in Asks :
         (pc[r] = "done" /\ InTry(r)) =>
            /\ resp[r].detail # "index not initialized"
            /\ Len(docs[r]) <= K
            /\ (ingested = <<>> /\ fault[r] = "none")
                 => /\ resp[r].status = 200
                    /\ docs[r] = <<dummy_doc>>

\* an ask answered before anything was ingested
C9_Witness ==
    \E r \in Asks :
        /\ pc[r] = "done"
        /\ ingested = <<>>
        /\ index.docs = <<dummy_doc>>
        /\ resp[r].status = 200
        /\ SourcesOf(r) = {SystemSource}

\* C10: when an upload request has finished, its temporary directory and
\* every file written into it are gone; between two files of the loop the
\* directory is empty.
C10_TempDirRemoved ==
    \A r \in Uploads :
        /\ pc[r] \in {"done", "idle"} => temp_dir[r] = NoDir
        /\ pc[r] = "loop" => temp_dir[r] = mkdtemp

\* a request in which no file was processed: the directory is gone although
\* the handler raised
C10_Witness ==
    \E r \in Uploads :
        /\ pc[r] = "done"
        /\ InLoop(r)
        /\ Len(errors[r]) = 2
        /\ resp[r].status = 500
        /\ temp_dir[r] = NoDir

====
